---------------------------- MODULE Spec2Model ----------------------------
(***************************************************************************)
(* rsync-backup (src/rsyncbackup.py): snapshot catalog, retention,         *)
(* transfer orchestration and checksum reconciliation of one backup run.   *)
(*                                                                         *)
(* A snapshot directory <interval>_<timestamp> is a record                 *)
(*   [interval, timestamp, files, gz, md5, nested]                         *)
(* files  : the regular files under <snapshot>/backup (path -> content)    *)
(* gz     : <snapshot>/checksums.gz   (current checksum record)            *)
(* md5    : <snapshot>/checksums.md5  (legacy checksum record)             *)
(* nested : directories that shutil.move put inside the snapshot           *)
(*                                                                         *)
(* Timestamps YYYY-MM-DD-HHMMSS are the numbers 0..MaxTS of a calendar     *)
(* with two seconds a day, two days a month and two months a year; their   *)
(* string order is the numeric order and the fnmatch patterns              *)
(* "<day>-*", "<month>-*", "<year>-*" are the prefixes Day, Month, Year.   *)
(***************************************************************************)
EXTENDS Integers, Sequences, FiniteSets, TLC

\* ------------------------------------------------------------------ bounds
MaxTS == 15
MaxInit == 2
MaxRet == 1
MaxRuns == 3
MaxInterval == 2

\* ------------------------------------------------------------ value spaces
Timestamps == 0..MaxTS
Intervals == <<"daily", "monthly", "yearly">>
Labels == {"daily", "monthly", "yearly", "custom", "incomplete", "current"}
Paths == {<<"a.txt">>, <<"b.txt">>}
PathOrder == <<(<<"a.txt">>), (<<"b.txt">>)>>
Contents == {"c1", "c2"}

None == [none |-> TRUE]
NoFile == [exists |-> FALSE, lines |-> <<>>]
File(lines) == [exists |-> TRUE, lines |-> lines]
EmptyTree == [p \in {} |-> "c1"]
Trees == UNION {[D -> Contents] : D \in SUBSET Paths}

Name(interval, timestamp) == [interval |-> interval, timestamp |-> timestamp]
NameOf(b) == Name(b.interval, b.timestamp)
Names(cat) == {NameOf(b) : b \in cat}
Lookup(cat, name) == CHOOSE b \in cat : NameOf(b) = name

Day(ts) == ts \div 2
Month(ts) == ts \div 4
Year(ts) == ts \div 8

\* fnmatch of "<interval>_<timestamp>" against "*_<pattern>" / "<interval>_<pattern>"
Pattern(interval, now) ==
    CASE interval = "custom"  -> [unit |-> "day", value |-> Day(now)]
      [] interval = "daily"   -> [unit |-> "day", value |-> Day(now)]
      [] interval = "monthly" -> [unit |-> "month", value |-> Month(now)]
      [] interval = "yearly"  -> [unit |-> "year", value |-> Year(now)]

FnMatch(ts, pattern) ==
    CASE pattern.unit = "day"   -> Day(ts) = pattern.value
      [] pattern.unit = "month" -> Month(ts) = pattern.value
      [] pattern.unit = "year"  -> Year(ts) = pattern.value

\* hashlib.md5 of a file's content, as a symbolic collision-free digest
GetFileMd5(content) == <<"md5", content>>
Checksums == {GetFileMd5(c) : c \in Contents}


\* ------------------------------------------------------- Backup (class)
Snapshot(interval, timestamp, files, gz, md5) ==
    [interval |-> interval, timestamp |-> timestamp, files |-> files,
     gz |-> gz, md5 |-> md5, nested |-> {}]

\* Backup.checksum_file looking for the legacy file first
ChecksumFileLegacyFirst(b) ==
    IF b.md5.exists THEN [version |-> 1, lines |-> b.md5.lines]
    ELSE IF b.gz.exists THEN [version |-> 2, lines |-> b.gz.lines]
    ELSE [version |-> 0, lines |-> <<>>]

\* Backup.checksum_file: (filename, version); version 0 stands for (None, None)
ChecksumFile(b) ==
    IF b.gz.exists THEN [version |-> 2, lines |-> b.gz.lines]
    ELSE IF b.md5.exists THEN [version |-> 1, lines |-> b.md5.lines]
    ELSE [version |-> 0, lines |-> <<>>]

\* filename.startswith(b'./') and its removal; a filename is its components
StripDotSlash(filename) ==
    IF Len(filename) > 0 /\ Head(filename) = "." THEN Tail(filename) ELSE filename

\* Backup.checksums (getter): the (filename, checksum) pairs the reader yields
ReadChecksums(b) ==
    LET cf == ChecksumFile(b)
    IN  [i \in 1..Len(cf.lines) |->
            IF cf.version = 1
            THEN <<StripDotSlash(cf.lines[i].filename), cf.lines[i].checksum>>
            ELSE <<cf.lines[i].filename, cf.lines[i].checksum>>]

\* Backup.checksums (setter): always writes checksums.gz
WriteChecksums(b, checksums) ==
    [b EXCEPT !.gz = File([i \in 1..Len(checksums) |->
                              [checksum |-> checksums[i][2],
                               filename |-> checksums[i][1]]])]

\* ------------------------------------------------------- catalog queries
\* sorted(self._get_backups(), key=attrgetter('timestamp'), reverse=True):
\* scandir enumerates in any order and the sort is stable, so every sequence
\* of the catalog in non-increasing timestamp order is a possible result.
RECURSIVE SortedBackups(_)
SortedBackups(cat) ==
    IF cat = {} THEN {<<>>}
    ELSE UNION {{<<b>> \o rest : rest \in SortedBackups(cat \ {b})} :
                  b \in {x \in cat : \A y \in cat : y.timestamp <= x.timestamp}}

\* The loop of _get_latest_backup over one sorted listing: the first entry
\* whose interval is not 'incomplete'; when the loop ends without a return,
\* the loop variable (the last entry listed) is returned, None for no entries.
LatestIn(listing) ==
    LET complete == {i \in 1..Len(listing) : listing[i].interval # "incomplete"}
    IN  IF complete # {}
        THEN listing[CHOOSE i \in complete : \A j \in complete : i <= j]
        ELSE IF Len(listing) = 0 THEN None ELSE listing[Len(listing)]

GetLatestBackup(cat) == {LatestIn(listing) : listing \in SortedBackups(cat)}

\* _get_incomplete_backup finding nothing
GetIncompleteBackupNever(cat) == {None}

\* _get_incomplete_backup: the first entry scandir lists whose name matches
\* incomplete_<timestamp>; None when there is no such entry.
GetIncompleteBackup(cat) ==
    LET found == {b \in cat : b.interval = "incomplete"}
    IN  IF found = {} THEN {None} ELSE found

\* The entries of one interval, newest first (timestamps of one interval are
\* distinct, so this part of the sorted listing is the same for every order).
RECURSIVE IntervalBackups(_, _)
IntervalBackups(cat, interval) ==
    LET mine == {b \in cat : b.interval = interval}
    IN  IF mine = {} THEN <<>>
        ELSE LET top == CHOOSE x \in mine : \A y \in mine : y.timestamp <= x.timestamp
             IN  <<top>> \o IntervalBackups(cat \ {top}, interval)

\* Python's seq[n:] for any integer n
SliceFrom(seq, n) ==
    LET start == IF n >= 0 THEN n ELSE IF Len(seq) + n > 0 THEN Len(seq) + n ELSE 0
    IN  IF start >= Len(seq) THEN <<>> ELSE SubSeq(seq, start + 1, Len(seq))

Range(seq) == {seq[i] : i \in 1..Len(seq)}

\* Move with a copy in place of the rename: the source directory stays
MoveLeavesSource(cat, src, dst) ==
    [ok |-> TRUE,
     cat |-> cat \cup {[Lookup(cat, src) EXCEPT !.interval = dst.interval,
                                                 !.timestamp = dst.timestamp]}]

\* shutil.move(src, dst) on two snapshot directories of backups_dir.
\* dst absent: rename. dst the same directory: nothing changes. dst another
\* existing directory: src is moved inside it, unless an entry of that name
\* is already there (shutil.Error).
Move(cat, src, dst) ==
    IF dst \notin Names(cat)
    THEN [ok |-> TRUE,
          cat |-> (cat \ {Lookup(cat, src)})
                  \cup {[Lookup(cat, src) EXCEPT !.interval = dst.interval,
                                                  !.timestamp = dst.timestamp]}]
    ELSE IF src = dst THEN [ok |-> TRUE, cat |-> cat]
    ELSE IF src \in Lookup(cat, dst).nested THEN [ok |-> FALSE, cat |-> cat]
    ELSE [ok |-> TRUE,
          cat |-> (cat \ {Lookup(cat, src), Lookup(cat, dst)})
                  \cup {[Lookup(cat, dst) EXCEPT !.nested = @ \cup {src}]}]


\* ------------------------------------------------------------------ state
VARIABLES
    catalog,          \* the snapshot directories under backups_dir
    source,           \* the file tree of the backup source
    retention,        \* self.intervals[interval]['retention']
    test,             \* self.test (dry run)
    timestamp,        \* self.timestamp
    pc,               \* the statement of backup() that runs next
    command,          \* the options _configure_rsync gave the transfer
    rsync_checksums,  \* the (path, checksum) pairs _run_rsync returned
    hashed,           \* the paths _get_checksums passed to _get_file_md5
    final_dest,       \* the name _get_final_dest chose
    status,           \* self.status
    error,            \* self.error
    exc,              \* the exception that left backup(), "none" if none
    cat0,             \* the catalog as it was when the run started
    prev,             \* the catalog as it was before the last step
    last_verification, \* the content of the file self.last_verification_file
    backup_name,      \* the argument verify() was called with
    stats,            \* what verify() counted and logged
    end_status,       \* the END STATUS line cleanup() logged
    runs,             \* the number of runs started on this storage
    ret               \* the value returned by a call made from outside

vars == <<catalog, source, retention, test, timestamp, pc, command,
          rsync_checksums, hashed, final_dest, status, error, exc, cat0, prev,
          last_verification, backup_name, stats, end_status, runs, ret>>

\* the variables backup() neither reads nor writes
other_vars == <<last_verification, backup_name, stats, end_status, runs, ret>>

NoCommand == [dry_run |-> FALSE, link_dest |-> None, delete_excluded |-> FALSE]
Target == Name("incomplete", timestamp)

\* a checksum record with one line per path of a map path -> checksum
RECURSIVE LinesOf(_, _, _)
LinesOf(sums, order, prefix) ==
    IF order = <<>> THEN <<>>
    ELSE (IF Head(order) \in DOMAIN sums
          THEN <<[checksum |-> sums[Head(order)], filename |-> prefix \o Head(order)]>>
          ELSE <<>>) \o LinesOf(sums, Tail(order), prefix)

ExactSums(files) == [p \in DOMAIN files |-> GetFileMd5(files[p])]
SumMaps == UNION {[D -> Checksums] : D \in SUBSET Paths}

\* the subsets of a set that have at most k elements
RECURSIVE SubsetsUpTo(_, _)
SubsetsUpTo(set, k) ==
    IF k = 0 THEN {{}}
    ELSE LET smaller == SubsetsUpTo(set, k - 1)
         IN  smaller \cup {s \cup {x} : s \in smaller, x \in set}

\* a snapshot of an empty source tree, with its (empty) checksum record
PlainSnapshot(interval, ts) == Snapshot(interval, ts, EmptyTree, File(<<>>), NoFile)

\* The run's timestamp is the last point of the calendar; the snapshots on
\* storage are from the same second and from one, two, four and eight
\* seconds before (with MaxTS = 15: earlier the same day, the day before,
\* the month before and the year before).
InitStamps == {MaxTS - 8, MaxTS - 4, MaxTS - 2, MaxTS - 1, MaxTS}

\* Runs over an empty source tree with catalogs of up to MaxInit snapshots
\* of any label, all of an empty tree. As the program leaves them, at most
\* one is incomplete and no two dailies are of one day, no two monthlies of
\* one month, no two yearlies of one year.
InitCatalog ==
    /\ timestamp = MaxTS
    /\ test \in BOOLEAN
    /\ retention \in [Range(Intervals) -> 0..MaxRet]
    /\ source = EmptyTree
    /\ \E names \in SubsetsUpTo([interval : Labels, timestamp : InitStamps], MaxInit) :
          /\ Cardinality({n \in names : n.interval = "incomplete"}) <= 1
          /\ \A n, m \in names :
                n.interval = m.interval /\ n.interval \in Range(Intervals)
                /\ FnMatch(n.timestamp, Pattern(n.interval, m.timestamp)) => n = m
          /\ catalog = {PlainSnapshot(n.interval, n.timestamp) : n \in names}

\* the checksum records a completed snapshot can carry: none, a current one
\* with any checksums for any paths, or a legacy one whose paths begin "./"
InitRecords(files) ==
    {<<NoFile, NoFile>>}
    \cup {<<File(LinesOf(m, PathOrder, <<>>)), NoFile>> : m \in SumMaps}
    \cup {<<NoFile, File(LinesOf(ExactSums(files), PathOrder, <<".">>))>>}

\* Non-dry runs over any source tree, with at most one completed snapshot
\* (of the month before, with any tree and record) and at most one
\* incomplete snapshot (of the day before, any tree, without a record or,
\* when its run stopped between writing the record and the rename, with the
\* record of its files).
InitContent ==
    /\ timestamp = MaxTS
    /\ test = FALSE
    /\ retention = [i \in Range(Intervals) |-> MaxRet]
    /\ source \in Trees
    /\ \E prior \in {{}} \cup UNION {{{Snapshot("daily", MaxTS - 4, f, r[1], r[2])} :
                                         r \in InitRecords(f)} : f \in Trees},
          inc \in {{}} \cup UNION {{{Snapshot("incomplete", MaxTS - 2, f, r, NoFile)} :
                                       r \in {NoFile, File(LinesOf(ExactSums(f), PathOrder, <<>>))}} :
                                     f \in Trees} :
          catalog = prior \cup inc

Init ==
    /\ InitCatalog \/ InitContent
    /\ pc = "configure"
    /\ command = NoCommand
    /\ rsync_checksums = <<>>
    /\ hashed = {}
    /\ final_dest = None
    /\ status = "Backup failed!"
    /\ error = TRUE
    /\ exc = "none"
    /\ cat0 = catalog
    /\ prev = catalog
    /\ last_verification = None
    /\ backup_name = None
    /\ stats = None
    /\ end_status = None
    /\ runs = 1
    /\ ret = None

Raise(e) ==
    /\ pc' = "raised"
    /\ exc' = e


\* ------------------------------------------------------- backup(): setup
\* backup() lines 459-465 and _configure_rsync: the link base is the latest
\* backup, an incomplete backup is moved to the target path and adds
\* --delete-excluded, otherwise the target directory is created unless this
\* is a dry run.
ConfigureRsync ==
    /\ pc = "configure"
    /\ prev' = catalog
    /\ status' = "Backup failed!"
    /\ error' = TRUE
    /\ \E previous_backup \in GetLatestBackup(catalog),
          incomplete_backup \in GetIncompleteBackup(catalog) :
          /\ command' = [dry_run |-> test,
                         link_dest |-> IF previous_backup = None THEN None
                                       ELSE NameOf(previous_backup),
                         delete_excluded |-> incomplete_backup # None]
          /\ IF incomplete_backup # None
             THEN LET moved == Move(catalog, NameOf(incomplete_backup), Target)
                  IN  IF moved.ok
                      THEN /\ catalog' = moved.cat
                           /\ pc' = "rsync"
                           /\ exc' = exc
                      ELSE /\ Raise("shutil.Error")
                           /\ catalog' = catalog
             ELSE /\ catalog' = IF test \/ Target \in Names(catalog) THEN catalog
                                ELSE catalog \cup {Snapshot("incomplete", timestamp,
                                                            EmptyTree, NoFile, NoFile)}
                  /\ pc' = "rsync"
                  /\ exc' = exc
    /\ UNCHANGED <<source, retention, test, timestamp, rsync_checksums, hashed,
                   final_dest, cat0>>
    /\ UNCHANGED other_vars

\* ---------------------------------------------------- the transfer (rsync)
FilesAt(cat, name) == IF name \in Names(cat) THEN Lookup(cat, name).files ELSE EmptyTree

Same(tree, other, p) ==
    \/ p \notin DOMAIN tree /\ p \notin DOMAIN other
    \/ p \in DOMAIN tree /\ p \in DOMAIN other /\ tree[p] = other[p]

\* the files rsync has to transfer: those of the source that are neither in
\* the destination nor in the link base with the same content
MustTransfer(dest, link) ==
    {p \in DOMAIN source :
        /\ ~(p \in DOMAIN dest /\ dest[p] = source[p])
        /\ ~(p \in DOMAIN link /\ link[p] = source[p])}

\* the '>' lines of the output, in the order rsync walks the tree
RECURSIVE ItemizedChanges(_, _)
ItemizedChanges(transferred, order) ==
    IF order = <<>> THEN <<>>
    ELSE (IF Head(order) \in transferred
          THEN <<(<<Head(order), GetFileMd5(source[Head(order)])>>)>>
          ELSE <<>>) \o ItemizedChanges(transferred, Tail(order))

SetFiles(cat, name, files) ==
    (cat \ {Lookup(cat, name)}) \cup {[Lookup(cat, name) EXCEPT !.files = files]}

\* _run_rsync, exit code 0: the destination mirrors the source (nothing is
\* written in a dry run) and every transferred file was reported with the
\* checksum of its content. rsync may transfer more than it must.
RunRsync ==
    /\ pc = "rsync"
    /\ prev' = catalog
    /\ test \/ Target \in Names(catalog)
    /\ \E transferred \in SUBSET DOMAIN source :
          /\ MustTransfer(FilesAt(catalog, Target),
                          FilesAt(catalog, command.link_dest)) \subseteq transferred
          /\ rsync_checksums' = ItemizedChanges(transferred, PathOrder)
    /\ catalog' = IF test THEN catalog ELSE SetFiles(catalog, Target, source)
    /\ pc' = IF test THEN "final" ELSE "checksums"
    /\ UNCHANGED <<source, retention, test, timestamp, command, hashed, final_dest,
                   status, error, exc, cat0>>
    /\ UNCHANGED other_vars

\* RunRsyncFailed discarding the partial backup before it raises
RunRsyncFailedDiscards ==
    /\ pc = "rsync"
    /\ prev' = catalog
    /\ catalog' = {b \in catalog : NameOf(b) # Target}
    /\ Raise("BackupException")
    /\ UNCHANGED <<source, retention, test, timestamp, command, rsync_checksums,
                   hashed, final_dest, status, error, cat0>>
    /\ UNCHANGED other_vars

\* _run_rsync, non-zero exit code: BackupException; each path of the
\* destination is left as it was or as the source has it.
RunRsyncFailed ==
    /\ pc = "rsync"
    /\ prev' = catalog
    /\ IF test \/ Target \notin Names(catalog)
       THEN catalog' = catalog
       ELSE \E partial \in Trees :
               /\ \A p \in Paths : \/ Same(partial, FilesAt(catalog, Target), p)
                                   \/ Same(partial, source, p)
               /\ catalog' = SetFiles(catalog, Target, partial)
    /\ Raise("BackupException")
    /\ UNCHANGED <<source, retention, test, timestamp, command, rsync_checksums,
                   hashed, final_dest, status, error, cat0>>
    /\ UNCHANGED other_vars


\* ------------------------------------------------ checksum reconciliation
FileNames(pairs) == {pairs[i][1] : i \in 1..Len(pairs)}

\* lines 607-610: the previous backup's pairs, in file order, for the files
\* still in need_checksum; a reused file leaves need_checksum
RECURSIVE ReuseChecksums(_, _)
ReuseChecksums(pairs, need_checksum) ==
    IF pairs = <<>> THEN <<>>
    ELSE IF Head(pairs)[1] \in need_checksum
         THEN <<Head(pairs)>> \o ReuseChecksums(Tail(pairs), need_checksum \ {Head(pairs)[1]})
         ELSE ReuseChecksums(Tail(pairs), need_checksum)

\* the orders in which a set can be iterated
RECURSIVE Orderings(_)
Orderings(set) ==
    IF set = {} THEN {<<>>}
    ELSE UNION {{<<x>> \o rest : rest \in Orderings(set \ {x})} : x \in set}

\* lines 612-623: the files left in need_checksum are read and hashed
HashFiles(files, order) == [i \in 1..Len(order) |-> <<order[i], GetFileMd5(files[order[i]])>>]

\* GetChecksums without the difference_update of lines 595-596: the files
\* rsync reported stay in need_checksum
GetChecksumsKeepsReported(backup, rsync_pairs, latest_backup, order) ==
    LET need1 == DOMAIN backup.files
        reused == IF ChecksumFile(latest_backup).version # 0
                  THEN ReuseChecksums(ReadChecksums(latest_backup), need1)
                  ELSE <<>>
        need2 == (need1 \ FileNames(reused)) \ FileNames(rsync_pairs \o reused)
    IN  [checksums |-> rsync_pairs \o reused \o HashFiles(backup.files, order),
         need_checksum |-> need2]

\* GetChecksums reusing the previous backup's checksums before it looks at
\* the pairs rsync reported
GetChecksumsReusesFirst(backup, rsync_pairs, latest_backup, order) ==
    LET reused == IF ChecksumFile(latest_backup).version # 0
                  THEN ReuseChecksums(ReadChecksums(latest_backup), DOMAIN backup.files)
                  ELSE <<>>
        reported == SelectSeq(rsync_pairs, LAMBDA pair : pair[1] \notin FileNames(reused))
        need2 == (DOMAIN backup.files \ FileNames(reused)) \ FileNames(reported)
    IN  [checksums |-> reused \o reported \o HashFiles(backup.files, order),
         need_checksum |-> need2]

\* _get_checksums(backup, rsync_checksums) with latest_backup the result of
\* _get_latest_backup and order the iteration order of the last loop:
\* [checksums, hashed]
GetChecksums(backup, rsync_pairs, latest_backup, order) ==
    LET need1 == DOMAIN backup.files \ FileNames(rsync_pairs)
        reused == IF ChecksumFile(latest_backup).version # 0
                  THEN ReuseChecksums(ReadChecksums(latest_backup), need1)
                  ELSE <<>>
        need2 == (need1 \ FileNames(reused)) \ FileNames(rsync_pairs \o reused)
    IN  [checksums |-> rsync_pairs \o reused \o HashFiles(backup.files, order),
         need_checksum |-> need2]

\* backup() lines 472-476: reconcile and write checksums.gz of the backup
\* being built
WriteBackupChecksums ==
    /\ pc = "checksums"
    /\ prev' = catalog
    /\ \E latest_backup \in GetLatestBackup(catalog) :
          IF latest_backup = None
          THEN /\ Raise("AttributeError")
               /\ UNCHANGED <<catalog, hashed>>
          ELSE LET backup == Lookup(catalog, Target)
                   need == GetChecksums(backup, rsync_checksums, latest_backup,
                                        <<>>).need_checksum
               IN  \E order \in Orderings(need) :
                      LET result == GetChecksums(backup, rsync_checksums,
                                                 latest_backup, order)
                      IN  /\ catalog' = (catalog \ {backup})
                                        \cup {WriteChecksums(backup, result.checksums)}
                          /\ hashed' = result.need_checksum
                          /\ pc' = "final"
                          /\ exc' = exc
    /\ UNCHANGED <<source, retention, test, timestamp, command, rsync_checksums,
                   final_dest, status, error, cat0>>
    /\ UNCHANGED other_vars


\* ------------------------------------------------------- finalisation
\* fnmatch.filter of the paths of one interval against '*_<pattern>'
Existing(cat, interval) ==
    {b \in cat : b.interval = interval
                 /\ FnMatch(b.timestamp, Pattern(interval, timestamp))}

\* _get_final_dest without the look at the daily backups of the day
GetFinalDestAlwaysDaily(cat) == Name("daily", timestamp)

\* _get_final_dest
GetFinalDest(cat) ==
    IF Existing(cat, "daily") # {} THEN Name("custom", timestamp)
    ELSE Name("daily", timestamp)

\* backup() lines 478-482: choose the final name and, unless this is a dry
\* run, move the backup there
MoveToFinalDest ==
    /\ pc = "final"
    /\ prev' = catalog
    /\ final_dest' = GetFinalDest(catalog)
    /\ IF test
       THEN /\ catalog' = catalog
            /\ pc' = "interval"
            /\ exc' = exc
       ELSE LET moved == Move(catalog, Target, GetFinalDest(catalog))
            IN  IF moved.ok
                THEN /\ catalog' = moved.cat
                     /\ pc' = "interval"
                     /\ exc' = exc
                ELSE /\ Raise("shutil.Error")
                     /\ catalog' = catalog
    /\ UNCHANGED <<source, retention, test, timestamp, command, rsync_checksums,
                   hashed, status, error, cat0>>
    /\ UNCHANGED other_vars

\* cp -al source_backup interval_backup, interval_backup not existing: a
\* copy of the whole directory under the new name
HardLinkCopy(cat, source_backup, interval) ==
    cat \cup {[Lookup(cat, source_backup) EXCEPT !.interval = interval,
                                                 !.timestamp = timestamp]}

\* the loop of _create_interval_backups from its i-th interval on
RECURSIVE CreateIntervalBackupsFrom(_, _, _)
CreateIntervalBackupsFrom(cat, source_backup, i) ==
    IF i > Len(Intervals) THEN cat
    ELSE IF retention[Intervals[i]] < 1 \/ Existing(cat, Intervals[i]) # {} \/ test
         THEN CreateIntervalBackupsFrom(cat, source_backup, i + 1)
         ELSE CreateIntervalBackupsFrom(HardLinkCopy(cat, source_backup, Intervals[i]),
                                        source_backup, i + 1)

\* _create_interval_backups(final_dest)
CreateIntervalBackups ==
    /\ pc = "interval"
    /\ prev' = catalog
    /\ catalog' = CreateIntervalBackupsFrom(catalog, final_dest, 1)
    /\ pc' = "retention"
    /\ UNCHANGED <<source, retention, test, timestamp, command, rsync_checksums,
                   hashed, final_dest, status, error, exc, cat0>>
    /\ UNCHANGED other_vars

\* ------------------------------------------------------------- retention
\* line 545 appends b, a name bound only inside the list comprehensions of
\* lines 532 and 536: reaching it raises NameError
CustomUnmatched(cat) ==
    {b \in cat : b.interval = "custom"
                 /\ ~FnMatch(b.timestamp, Pattern("custom", timestamp))}

\* to_delete of _remove_old_backups when no exception is raised
ToDelete(cat) ==
    {b \in cat : b.interval = "current"}
    \cup UNION {Range(SliceFrom(IntervalBackups(cat, Intervals[i]),
                                retention[Intervals[i]])) : i \in DOMAIN Intervals}

\* _remove_old_backups
RemoveOldBackups ==
    /\ pc = "retention"
    /\ prev' = catalog
    /\ IF CustomUnmatched(catalog) # {}
       THEN /\ Raise("NameError")
            /\ catalog' = catalog
       ELSE /\ catalog' = IF test THEN catalog ELSE catalog \ ToDelete(catalog)
            /\ pc' = "logs"
            /\ exc' = exc
    /\ UNCHANGED <<source, retention, test, timestamp, command, rsync_checksums,
                   hashed, final_dest, status, error, cat0>>
    /\ UNCHANGED other_vars

\* backup() lines 486-494: logs are pruned and the run reports success
Finish ==
    /\ pc = "logs"
    /\ prev' = catalog
    /\ status' = IF test THEN "Dry run completed successfully!"
                 ELSE "Backup completed successfully!"
    /\ error' = FALSE
    /\ pc' = "done"
    /\ UNCHANGED <<catalog, source, retention, test, timestamp, command,
                   rsync_checksums, hashed, final_dest, exc, cat0>>
    /\ UNCHANGED other_vars

Next ==
    \/ ConfigureRsync
    \/ RunRsync
    \/ RunRsyncFailed
    \/ WriteBackupChecksums
    \/ MoveToFinalDest
    \/ CreateIntervalBackups
    \/ RemoveOldBackups
    \/ Finish

Spec == Init /\ [][Next]_vars


\* ---------------------------------------------------------- snapshot names
\* A directory name is a sequence of tokens: a label, the character "_", a
\* 17-character timestamp [0-9-]{17}, the path separator "/" or other text.
LabelToken(l) == [label |-> l]
StampToken(ts) == [stamp |-> ts]
Underscore == [ch |-> "_"]
Separator == [ch |-> "/"]
Text == [ch |-> "x"]

\* '%s_%s' % (interval, timestamp), the name of a snapshot directory
FormatName(n) == <<LabelToken(n.interval), Underscore, StampToken(n.timestamp)>>

\* Backup._parse_name: the match of ^(.+)_([0-9-]{17})$ and its two groups;
\* without a match m is None and m.group raises AttributeError
ParseName(name) ==
    IF /\ Len(name) >= 3
       /\ DOMAIN name[Len(name)] = {"stamp"}
       /\ name[Len(name) - 1] = Underscore
    THEN [matched |-> TRUE, timestamp |-> name[Len(name)].stamp,
          interval |-> SubSeq(name, 1, Len(name) - 2)]
    ELSE [matched |-> FALSE, timestamp |-> None, interval |-> <<>>]

\* os.path.split(backup_name)[0]: non-empty exactly when the name holds a "/"
SplitHead(name) ==
    LET seps == {i \in DOMAIN name : name[i] = Separator}
    IN  IF seps = {} THEN <<>>
        ELSE LET last == CHOOSE i \in seps : \A j \in seps : j <= i
                 head == SubSeq(name, 1, last)
             IN  IF \A i \in DOMAIN head : head[i] = Separator THEN head
                 ELSE SubSeq(head, 1, CHOOSE k \in DOMAIN head :
                                         /\ head[k] # Separator
                                         /\ \A j \in DOMAIN head :
                                               j > k => head[j] = Separator)

\* _get_backup_by_name: [exc, backup]
GetBackupByName(cat, name) ==
    IF SplitHead(name) # <<>>
    THEN [exc |-> "BackupException", backup |-> None]
    ELSE IF ~ParseName(name).matched
    THEN [exc |-> "AttributeError", backup |-> None]
    ELSE LET found == {b \in cat : FormatName(NameOf(b)) = name}
         IN  [exc |-> "none",
              backup |-> IF found = {} THEN None ELSE CHOOSE b \in found : TRUE]


\* ------------------------------------------------------------ verification
\* the default argument of verify(): the latest backup is verified
CurrentName == <<[ch |-> "_current_"]>>

\* os.path.normpath(os.path.join(backup.backup_dir, filename)) relative to
\* the content root: the "." components are dropped
Normpath(filename) == SelectSeq(filename, LAMBDA component : component # ".")

NoStats == [backup |-> None, checked_count |-> 0, verified_count |-> 0,
            failed_count |-> 0, failed_log |-> <<>>, exc |-> "none"]

\* the loop of verify() lines 352-365 from the i-th pair on; opening a file
\* that is not there raises FileNotFoundError out of _get_file_md5
RECURSIVE VerifyLoop(_, _, _, _)
VerifyLoop(backup, pairs, i, acc) ==
    IF i > Len(pairs) THEN acc
    ELSE LET file_path == Normpath(pairs[i][1])
             counted == [acc EXCEPT !.checked_count = @ + 1]
         IN  IF file_path \notin DOMAIN backup.files
             THEN [counted EXCEPT !.exc = "FileNotFoundError"]
             ELSE IF GetFileMd5(backup.files[file_path]) = pairs[i][2]
             THEN VerifyLoop(backup, pairs, i + 1,
                             [counted EXCEPT !.verified_count = @ + 1])
             ELSE VerifyLoop(backup, pairs, i + 1,
                             [counted EXCEPT !.failed_count = @ + 1,
                                             !.failed_log = Append(@, file_path)])

\* _write_timestamp(file_path): nothing in a dry run, else the current time
WriteTimestamp(old) == IF test THEN {old} ELSE {[time |-> now] : now \in timestamp..MaxTS}

\* the marker written whatever name verify() was called with
MarkerAfterAnyVerify(name, result) ==
    IF result.exc = "none" THEN WriteTimestamp(last_verification)
    ELSE {last_verification}

\* verify() lines 381-382: the marker file after verify(name) came to result
MarkerAfterVerify(name, result) ==
    IF result.exc = "none" /\ name = CurrentName
    THEN WriteTimestamp(last_verification)
    ELSE {last_verification}

\* verify(backup_name)
Verify(name) ==
    /\ pc = "verify"
    /\ prev' = catalog
    /\ backup_name' = name
    /\ LET by_name == GetBackupByName(catalog, name)
       IN  \E backup \in (IF name = CurrentName THEN GetLatestBackup(catalog)
                          ELSE {by_name.backup}) :
              LET result ==
                      IF name # CurrentName /\ by_name.exc # "none"
                      THEN [NoStats EXCEPT !.exc = by_name.exc]
                      ELSE IF backup = None
                      THEN [NoStats EXCEPT !.exc = "BackupException"]
                      ELSE IF ChecksumFile(backup).version = 0
                      THEN [NoStats EXCEPT !.backup = NameOf(backup),
                                           !.exc = "BackupException"]
                      ELSE VerifyLoop(backup, ReadChecksums(backup), 1,
                                      [NoStats EXCEPT !.backup = NameOf(backup)])
              IN  /\ stats' = result
                  /\ exc' = result.exc
                  /\ pc' = IF result.exc = "none" THEN "verified" ELSE "raised"
                  /\ status' = IF result.exc = "none" /\ result.failed_count = 0
                               THEN "Backup verification completed successfully!"
                               ELSE "Backup verification failed!"
                  /\ error' = (result.exc # "none")
                  /\ last_verification' \in MarkerAfterVerify(name, result)
    /\ UNCHANGED <<catalog, source, retention, test, timestamp, command,
                   rsync_checksums, hashed, final_dest, cat0, end_status, runs, ret>>


\* the checksum records a directory can hold when it is verified: a current
\* one with or without "./" before the paths, a legacy one, both or neither
CurrentRecords ==
    {NoFile} \cup {File(LinesOf(m, PathOrder, pre)) : m \in SumMaps, pre \in {<<>>, <<".">>}}

LegacyRecords == {NoFile} \cup {File(LinesOf(m, PathOrder, <<".">>)) : m \in SumMaps}

\* One completed snapshot whose files and records are whatever time and the
\* operator left of them (changed or deleted files, records of either kind),
\* or up to MaxInit + 1 untouched snapshots of any label.
InitVerifyCatalog ==
    \/ \E f \in Trees, gz \in CurrentRecords, md5 \in LegacyRecords :
          catalog = {Snapshot("daily", MaxTS - 4, f, gz, md5)}
    \/ \E names \in SubsetsUpTo([interval : Labels,
                                 timestamp : {MaxTS - 4, MaxTS - 2, MaxTS}],
                                MaxInit + 1) :
          catalog = {PlainSnapshot(n.interval, n.timestamp) : n \in names}

\* the names verify() is called with
VerifyNames ==
    {CurrentName, <<>>, <<Text>>, <<Separator>>, <<LabelToken("daily")>>,
     <<Text, Underscore, Text>>,
     <<Text, Separator>> \o FormatName(Name("daily", MaxTS - 4)),
     FormatName(Name("daily", MaxTS - 4)) \o <<Separator>>}
    \cup {FormatName(n) : n \in {Name("daily", MaxTS - 4), Name("monthly", MaxTS - 4),
                                 Name("incomplete", MaxTS - 2)}}

InitVerify ==
    /\ InitVerifyCatalog
    /\ timestamp = MaxTS
    /\ test \in BOOLEAN
    /\ last_verification \in {None, [time |-> MaxTS - 8]}
    /\ retention = [i \in Range(Intervals) |-> MaxRet]
    /\ source = EmptyTree
    /\ pc = "verify"
    /\ command = NoCommand
    /\ rsync_checksums = <<>>
    /\ hashed = {}
    /\ final_dest = None
    /\ status = "Backup failed!"
    /\ error = TRUE
    /\ exc = "none"
    /\ cat0 = catalog
    /\ prev = catalog
    /\ backup_name = None
    /\ stats = None
    /\ end_status = None
    /\ runs = 1
    /\ ret = None

NextVerify == \E name \in VerifyNames : Verify(name)

SpecVerify == InitVerify /\ [][NextVerify]_vars


\* ------------------------------------------ verification after a backup
\* (datetime.now() - last_verified).days: whole days, of two seconds each
DaysBetween(now, last_verified) == (now - last_verified.time) \div 2

\* schedule_verification() with verification_interval read from the
\* configuration: nothing when it is 0; the marker is written when it is
\* absent or unreadable; verify() when more than interval days have passed
ScheduleVerification ==
    /\ pc = "schedule"
    /\ prev' = catalog
    /\ \E interval \in 0..MaxInterval, now \in timestamp..MaxTS :
          IF interval = 0
          THEN /\ error' = TRUE
               /\ pc' = "scheduled"
               /\ UNCHANGED <<status, exc, last_verification, backup_name, stats>>
          ELSE IF last_verification = None
          THEN /\ error' = TRUE
               /\ last_verification' \in WriteTimestamp(last_verification)
               /\ pc' = "scheduled"
               /\ UNCHANGED <<status, exc, backup_name, stats>>
          ELSE IF DaysBetween(now, last_verification) > interval
          THEN \E backup \in GetLatestBackup(catalog) :
                  LET result ==
                          IF backup = None
                          THEN [NoStats EXCEPT !.exc = "BackupException"]
                          ELSE IF ChecksumFile(backup).version = 0
                          THEN [NoStats EXCEPT !.backup = NameOf(backup),
                                               !.exc = "BackupException"]
                          ELSE VerifyLoop(backup, ReadChecksums(backup), 1,
                                          [NoStats EXCEPT !.backup = NameOf(backup)])
                  IN  /\ backup_name' = CurrentName
                      /\ stats' = result
                      /\ exc' = result.exc
                      /\ pc' = IF result.exc = "none" THEN "scheduled" ELSE "raised"
                      /\ status' = IF result.exc = "none" /\ result.failed_count = 0
                                   THEN "Backup verification completed successfully!"
                                   ELSE "Backup verification failed!"
                      /\ error' = (result.exc # "none")
                      /\ last_verification' \in MarkerAfterVerify(CurrentName, result)
          ELSE /\ error' = FALSE
               /\ pc' = "scheduled"
               /\ UNCHANGED <<status, exc, last_verification, backup_name, stats>>
    /\ UNCHANGED <<catalog, source, retention, test, timestamp, command,
                   rsync_checksums, hashed, final_dest, cat0, end_status, runs, ret>>

\* schedule_verification is called after backup() has returned: the catalog
\* is one verify() can meet, the marker is absent or of any time
InitSchedule ==
    /\ InitVerifyCatalog
    /\ timestamp = MaxTS
    /\ test \in BOOLEAN
    /\ last_verification \in {None} \cup {[time |-> ts] : ts \in Timestamps}
    /\ retention = [i \in Range(Intervals) |-> MaxRet]
    /\ source = EmptyTree
    /\ pc = "schedule"
    /\ command = NoCommand
    /\ rsync_checksums = <<>>
    /\ hashed = {}
    /\ final_dest = None
    /\ status = (IF test THEN "Dry run completed successfully!"
                 ELSE "Backup completed successfully!")
    /\ error = FALSE
    /\ exc = "none"
    /\ cat0 = catalog
    /\ prev = catalog
    /\ backup_name = None
    /\ stats = None
    /\ end_status = None
    /\ runs = 1
    /\ ret = None

NextSchedule == ScheduleVerification

SpecSchedule == InitSchedule /\ [][NextSchedule]_vars

\* ------------------------------------------- the run as a context manager
\* with RsyncBackup(...) as run: run.backup()
Running == pc \in {"configure", "rsync", "checksums", "final", "interval",
                   "retention", "logs"}

\* Ctrl-C while backup() runs: KeyboardInterrupt is raised at the statement
\* that is next
KeyboardInterrupt ==
    /\ Running
    /\ prev' = catalog
    /\ Raise("KeyboardInterrupt")
    /\ UNCHANGED <<catalog, source, retention, test, timestamp, command,
                   rsync_checksums, hashed, final_dest, status, error, cat0>>
    /\ UNCHANGED other_vars

\* __exit__ entered only when backup() returned
ExitAfterReturn ==
    /\ pc = "done"
    /\ prev' = catalog
    /\ end_status' = [status |-> status, error |-> error]
    /\ pc' = "exited"
    /\ UNCHANGED <<catalog, source, retention, test, timestamp, command,
                   rsync_checksums, hashed, final_dest, status, error, exc, cat0,
                   last_verification, backup_name, stats, runs, ret>>

\* __exit__ and cleanup(): the status becomes 'Backup aborted!' after a
\* KeyboardInterrupt, the status is reported and logged as END STATUS
Exit ==
    /\ pc \in {"done", "raised"}
    /\ prev' = catalog
    /\ status' = IF exc = "KeyboardInterrupt" THEN "Backup aborted!" ELSE status
    /\ end_status' = [status |-> status', error |-> error]
    /\ pc' = "exited"
    /\ UNCHANGED <<catalog, source, retention, test, timestamp, command,
                   rsync_checksums, hashed, final_dest, error, exc, cat0,
                   last_verification, backup_name, stats, runs, ret>>

\* runs over an empty source tree
InitSession == Init /\ source = EmptyTree

NextSession ==
    \/ Next
    \/ KeyboardInterrupt
    \/ Exit

SpecSession == InitSession /\ [][NextSession]_vars


\* ------------------------------------------- the checksum record, by itself
\* the (filename, checksum) pairs of a map path -> checksum, in path order
PairsOf(sums) ==
    LET order == SelectSeq(PathOrder, LAMBDA p : p \in DOMAIN sums)
    IN  [i \in 1..Len(order) |-> <<order[i], sums[order[i]]>>]

\* list(backup.checksums) for a snapshot on storage
ReadStored ==
    /\ pc \in {"store", "written"}
    /\ prev' = catalog
    /\ \E b \in catalog : ret' = [backup |-> NameOf(b), value |-> ReadChecksums(b)]
    /\ pc' = "read"
    /\ UNCHANGED <<catalog, source, retention, test, timestamp, command,
                   rsync_checksums, hashed, final_dest, status, error, exc, cat0,
                   last_verification, backup_name, stats, end_status, runs>>

\* backup.checksums = checksums for a snapshot on storage
WriteStored ==
    /\ pc = "store"
    /\ prev' = catalog
    /\ \E b \in catalog, sums \in SumMaps :
          /\ catalog' = (catalog \ {b}) \cup {WriteChecksums(b, PairsOf(sums))}
          /\ ret' = [backup |-> NameOf(b), value |-> PairsOf(sums)]
    /\ pc' = "written"
    /\ UNCHANGED <<source, retention, test, timestamp, command,
                   rsync_checksums, hashed, final_dest, status, error, exc, cat0,
                   last_verification, backup_name, stats, end_status, runs>>

\* one snapshot with any current and any legacy record
InitStore ==
    /\ \E gz \in CurrentRecords, md5 \in LegacyRecords :
          catalog = {Snapshot("daily", MaxTS - 4, EmptyTree, gz, md5)}
    /\ timestamp = MaxTS
    /\ test = FALSE
    /\ last_verification = None
    /\ retention = [i \in Range(Intervals) |-> MaxRet]
    /\ source = EmptyTree
    /\ pc = "store"
    /\ command = NoCommand
    /\ rsync_checksums = <<>>
    /\ hashed = {}
    /\ final_dest = None
    /\ status = "Backup failed!"
    /\ error = TRUE
    /\ exc = "none"
    /\ cat0 = catalog
    /\ prev = catalog
    /\ backup_name = None
    /\ stats = None
    /\ end_status = None
    /\ runs = 1
    /\ ret = None

NextStore ==
    \/ ReadStored
    \/ WriteStored

SpecStore == InitStore /\ [][NextStore]_vars


\* ------------------------------------------------- runs, one after another
\* the loop of _create_interval_backups from its i-th interval to its
\* last-th, for a process that is killed inside the loop
RECURSIVE CreateIntervalBackupsUpTo(_, _, _, _)
CreateIntervalBackupsUpTo(cat, source_backup, i, last) ==
    IF i > last THEN cat
    ELSE IF retention[Intervals[i]] < 1 \/ Existing(cat, Intervals[i]) # {} \/ test
         THEN CreateIntervalBackupsUpTo(cat, source_backup, i + 1, last)
         ELSE CreateIntervalBackupsUpTo(HardLinkCopy(cat, source_backup, Intervals[i]),
                                        source_backup, i + 1, last)

\* what is on storage of a directory tree that is being copied (cp -al) or
\* removed (rm -rf) when the process tree stops: any part of its files, with
\* or without each of its checksum files
PartOf(b) ==
    {[b EXCEPT !.files = [p \in D |-> b.files[p]], !.gz = gz, !.md5 = md5] :
        D \in SUBSET DOMAIN b.files, gz \in {b.gz, NoFile}, md5 \in {b.md5, NoFile}}

\* the catalogs a kill inside the loop of _create_interval_backups can
\* leave: the copies of the intervals before the k-th are complete, the
\* k-th copy, if there is to be one, is there in part
KilledInsideCopy(cat, source_backup) ==
    UNION {LET done == CreateIntervalBackupsUpTo(cat, source_backup, 1, k - 1)
           IN  IF retention[Intervals[k]] < 1 \/ Existing(done, Intervals[k]) # {} \/ test
               THEN {done}
               ELSE {done \cup {part} :
                       part \in PartOf([Lookup(done, source_backup)
                                          EXCEPT !.interval = Intervals[k],
                                                 !.timestamp = timestamp])} :
           k \in DOMAIN Intervals}

\* the catalogs a kill inside the removal loop of _remove_old_backups can
\* leave: each snapshot to delete is still whole, there in part, or gone
RECURSIVE KilledInsideRemoval(_, _)
KilledInsideRemoval(cat, to_delete) ==
    IF to_delete = {} THEN {cat}
    ELSE LET b == CHOOSE x \in to_delete : TRUE
         IN  UNION {{rest, rest \ {b}} \cup {(rest \ {b}) \cup {part} : part \in PartOf(b)} :
                      rest \in KilledInsideRemoval(cat, to_delete \ {b})}

\* The process is killed between two steps (SIGKILL, power loss): no handler
\* runs and what the process held in memory (its command, its checksums) is
\* gone. Inside the loop of _create_interval_backups some of the copies
\* exist; inside the removal loop of _remove_old_backups some of the
\* snapshots to delete are gone.
Kill ==
    /\ Running
    /\ prev' = catalog
    /\ pc' = "killed"
    /\ catalog' \in
          CASE pc = "interval" ->
                 {CreateIntervalBackupsUpTo(catalog, final_dest, 1, last) :
                     last \in 0..Len(Intervals)}
            [] pc = "retention" /\ CustomUnmatched(catalog) = {} /\ ~test ->
                 {catalog \ gone : gone \in SUBSET ToDelete(catalog)}
            [] OTHER -> {catalog}
    /\ command' = NoCommand
    /\ rsync_checksums' = <<>>
    /\ hashed' = {}
    /\ final_dest' = None
    /\ UNCHANGED <<source, retention, test, timestamp, status, error, exc, cat0>>
    /\ UNCHANGED other_vars

\* The process is killed together with the cp or rm it is waiting for (power
\* loss, SIGKILL of the process group): the copy or the removal under way
\* is left unfinished.
KillInside ==
    /\ pc \in {"interval", "retention"}
    /\ ~test
    /\ prev' = catalog
    /\ pc' = "killed"
    /\ catalog' \in
          IF pc = "interval" THEN KilledInsideCopy(catalog, final_dest)
          ELSE IF CustomUnmatched(catalog) = {}
               THEN KilledInsideRemoval(catalog, ToDelete(catalog))
               ELSE {catalog}
    /\ command' = NoCommand
    /\ rsync_checksums' = <<>>
    /\ hashed' = {}
    /\ final_dest' = None
    /\ UNCHANGED <<source, retention, test, timestamp, status, error, exc, cat0>>
    /\ UNCHANGED other_vars

\* the next run on the same storage: RsyncBackup.__init__ with a clock that
\* has not gone back, in either mode
StartRun ==
    /\ pc \in {"done", "raised", "killed"}
    /\ runs < MaxRuns
    /\ runs' = runs + 1
    /\ timestamp' \in timestamp..MaxTS
    /\ test' \in BOOLEAN
    /\ pc' = "configure"
    /\ command' = NoCommand
    /\ rsync_checksums' = <<>>
    /\ hashed' = {}
    /\ final_dest' = None
    /\ status' = "Backup failed!"
    /\ error' = TRUE
    /\ exc' = "none"
    /\ cat0' = catalog
    /\ prev' = catalog
    /\ end_status' = None
    /\ UNCHANGED <<catalog, source, retention, last_verification, backup_name,
                   stats, ret>>

\* the first run of a label, on the first day of the calendar: nothing on
\* storage yet
InitRuns ==
    /\ catalog = {}
    /\ timestamp \in {ts \in Timestamps : Day(ts) = 0}
    /\ test \in BOOLEAN
    /\ retention \in [Range(Intervals) -> 0..MaxRet]
    /\ source = EmptyTree
    /\ pc = "configure"
    /\ command = NoCommand
    /\ rsync_checksums = <<>>
    /\ hashed = {}
    /\ final_dest = None
    /\ status = "Backup failed!"
    /\ error = TRUE
    /\ exc = "none"
    /\ cat0 = catalog
    /\ prev = catalog
    /\ last_verification = None
    /\ backup_name = None
    /\ stats = None
    /\ end_status = None
    /\ runs = 1
    /\ ret = None

NextRuns ==
    \/ Next
    \/ Kill
    \/ StartRun

SpecRuns == InitRuns /\ [][NextRuns]_vars


\* ------------------------------------------------- one run that can be killed
NextKilled ==
    \/ Next
    \/ Kill
    \/ KillInside

SpecKilled == Init /\ [][NextKilled]_vars

\* ------------------------------------------------------------- the claims
Of(cat, interval) == {b \in cat : b.interval = interval}
Completed(cat) == {b \in cat : b.interval # "incomplete"}

\* _remove_old_backups has run: it returned, or raised its NameError
RetentionRan == pc = "logs" \/ (pc = "raised" /\ exc = "NameError")

\* the first n entries of a sequence (all of it when it is shorter)
FirstN(seq, n) == SubSeq(seq, 1, IF n < Len(seq) THEN n ELSE Len(seq))

\* C1: after the retention pass of a non-dry run, of every label daily,
\* monthly, yearly with retention count N >= 1 exactly the N snapshots with
\* the greatest timestamps remain (all when there are fewer), whatever else
\* the catalog holds.
C1_RetentionKeepsNewest ==
    RetentionRan /\ ~test =>
        \A i \in DOMAIN Intervals :
            retention[Intervals[i]] >= 1 =>
                Of(catalog, Intervals[i])
                    = Range(FirstN(IntervalBackups(prev, Intervals[i]),
                                   retention[Intervals[i]]))

\* C2: the retention pass of a non-dry run removes every custom snapshot
\* that does not match the current day and keeps every one that does.
C2_StaleCustomRemoved ==
    RetentionRan /\ ~test =>
        Of(catalog, "custom") = Of(prev, "custom") \ CustomUnmatched(prev)

\* C3: a label whose retention count is below 1 is skipped by a run: no
\* snapshot of that label is created and none is removed.
C3_DisabledLabelUntouched ==
    \A i \in DOMAIN Intervals :
        retention[Intervals[i]] < 1 =>
            Names(Of(catalog, Intervals[i])) = Names(Of(cat0, Intervals[i]))

\* C4: _get_latest_backup returns a snapshot that is not incomplete and has
\* the greatest timestamp of the snapshots that are not incomplete, and None
\* when there is no such snapshot.
C4_LatestIsNewestCompleted ==
    \A latest \in GetLatestBackup(catalog) :
        IF Completed(catalog) = {} THEN latest = None
        ELSE /\ latest \in Completed(catalog)
             /\ \A b \in Completed(catalog) : b.timestamp <= latest.timestamp


\* the checksum record of a snapshot holds exactly one line for every file
\* under its content root and no line for any other path
OneEntryPerFile(b) ==
    /\ b.gz.exists
    /\ \A p \in DOMAIN b.files :
          Cardinality({i \in DOMAIN b.gz.lines : b.gz.lines[i].filename = p}) = 1
    /\ \A i \in DOMAIN b.gz.lines : b.gz.lines[i].filename \in DOMAIN b.files

AfterMove == pc \in {"interval", "retention", "logs", "done"}

\* the run's backup stands under its final name (it was renamed, not moved
\* inside an older directory of that name)
Finalised(cat) ==
    /\ final_dest \in Names(cat)
    /\ Target \notin Lookup(cat, final_dest).nested

\* C5: in a non-dry run the checksum record written for the new snapshot has
\* exactly one entry for every file under its content root and none for an
\* absent path, from the moment it is written to the end of the run.
C5_OneChecksumPerPresentFile ==
    ~test =>
        /\ pc = "final" => OneEntryPerFile(Lookup(catalog, Target))
        /\ AfterMove /\ Finalised(catalog) => OneEntryPerFile(Lookup(catalog, final_dest))

C5_Witness ==
    /\ pc = "done" /\ ~test /\ Finalised(catalog)
    /\ command.delete_excluded
    /\ Len(rsync_checksums) = 1
    /\ hashed # {}
    /\ Cardinality(DOMAIN Lookup(catalog, final_dest).files) = 2

\* the prior completed snapshot: the newest snapshot that is not incomplete
PriorSnapshots(cat) ==
    {b \in Completed(cat) : \A c \in Completed(cat) : c.timestamp <= b.timestamp}

\* every line of the record for path p carries checksum sum, and there is one
RecordHas(b, p, sum) ==
    /\ \E i \in DOMAIN b.gz.lines : b.gz.lines[i].filename = p
    /\ \A i \in DOMAIN b.gz.lines :
          b.gz.lines[i].filename = p => b.gz.lines[i].checksum = sum

PairsHave(pairs, p, sum) == \E i \in DOMAIN pairs : pairs[i] = <<p, sum>>

\* the three tiers for the record of snapshot b against the pairs of a prior
\* record
Precedence(b, prior_pairs) ==
    \A p \in DOMAIN b.files :
        /\ p \in FileNames(rsync_checksums) =>
              /\ \E sum \in Checksums :
                    PairsHave(rsync_checksums, p, sum) /\ RecordHas(b, p, sum)
              /\ p \notin hashed
        /\ p \notin FileNames(rsync_checksums) /\ p \in FileNames(prior_pairs) =>
              /\ \E sum \in Checksums :
                    PairsHave(prior_pairs, p, sum) /\ RecordHas(b, p, sum)
              /\ p \notin hashed
        /\ p \in hashed =>
              /\ p \notin FileNames(rsync_checksums)
              /\ p \notin FileNames(prior_pairs)
              /\ RecordHas(b, p, GetFileMd5(b.files[p]))

\* C6: reconciliation gives a file the transfer reported the transfer's
\* checksum, even when the prior record has the path; a file the transfer
\* did not report whose path is in the prior snapshot's record the prior
\* checksum, without hashing it; and hashes only files covered by neither.
C6_ChecksumPrecedence ==
    pc = "final" /\ ~test =>
        IF PriorSnapshots(catalog) = {}
        THEN Precedence(Lookup(catalog, Target), <<>>)
        ELSE \E prior \in PriorSnapshots(catalog) :
                Precedence(Lookup(catalog, Target), ReadChecksums(prior))

\* prior record {a.txt}, transfer event {b.txt}, both files present: the
\* record is {a.txt: inherited, b.txt: from the transfer}, nothing hashed
C6_Witness ==
    /\ pc = "final" /\ ~test
    /\ \E prior \in PriorSnapshots(catalog) :
          /\ FileNames(ReadChecksums(prior)) = {<<"a.txt">>}
          /\ PairsHave(ReadChecksums(prior), <<"a.txt">>, GetFileMd5("c2"))
    /\ FileNames(rsync_checksums) = {<<"b.txt">>}
    /\ DOMAIN Lookup(catalog, Target).files = Paths
    /\ Lookup(catalog, Target).files[<<"a.txt">>] = "c1"
    /\ Len(Lookup(catalog, Target).gz.lines) = 2
    /\ RecordHas(Lookup(catalog, Target), <<"a.txt">>, GetFileMd5("c2"))
    /\ RecordHas(Lookup(catalog, Target), <<"b.txt">>,
                 GetFileMd5(Lookup(catalog, Target).files[<<"b.txt">>]))
    /\ hashed = {}


\* the checksums.gz the backup being built had when the run found it
RecordAtStart ==
    IF Of(cat0, "incomplete") = {} THEN {NoFile}
    ELSE {b.gz : b \in Of(cat0, "incomplete")}

\* C7: a non-zero exit code of the transfer raises BackupException and ends
\* backup(): the backup being built stays under incomplete_<timestamp>, no
\* checksum record is written, nothing is renamed, derived or pruned, and the
\* completed snapshots are those from before the run.
C7_FailedTransferKeepsIncomplete ==
    pc = "raised" /\ exc = "BackupException" =>
        /\ Completed(catalog) = Completed(cat0)
        /\ Of(catalog, "incomplete") # {} => Names(Of(catalog, "incomplete")) = {Target}
        /\ ~test \/ Of(cat0, "incomplete") # {} => Target \in Names(catalog)
        /\ Target \in Names(catalog) =>
              /\ Lookup(catalog, Target).gz \in RecordAtStart
              /\ Lookup(catalog, Target).md5 = NoFile
        /\ final_dest = None
        /\ hashed = {}
        /\ status = "Backup failed!" /\ error
        /\ ~ENABLED Next

C7_Witness ==
    /\ pc = "raised" /\ exc = "BackupException" /\ ~test
    /\ Completed(cat0) # {}
    /\ Of(cat0, "incomplete") = {}
    /\ Lookup(catalog, Target).files # EmptyTree

\* the state _configure_rsync leaves when it found the incomplete backup inc
Resumed(inc) ==
    /\ command.delete_excluded
    /\ catalog = (prev \ {inc}) \cup {[inc EXCEPT !.timestamp = timestamp]}

\* the state _configure_rsync leaves when it found no incomplete backup
Fresh ==
    /\ ~command.delete_excluded
    /\ catalog = IF test THEN prev
                 ELSE prev \cup {Snapshot("incomplete", timestamp, EmptyTree,
                                          NoFile, NoFile)}
    /\ test => Target \notin Names(catalog)

\* C8 as stated: an incomplete snapshot found at the start of a run is moved
\* to incomplete_<current timestamp>, so that its old name no longer exists,
\* and the transfer gets --delete-excluded; otherwise the option is not given
\* and a fresh empty target directory is created, except in a dry run.
C8_IncompleteMovedOldNameGone ==
    pc = "rsync" =>
        IF Of(prev, "incomplete") # {}
        THEN \E inc \in Of(prev, "incomplete") :
                Resumed(inc) /\ NameOf(inc) \notin Names(catalog)
        ELSE Fresh

\* C8 as amended: the old name no longer exists unless it is the target path
\* itself (the incomplete snapshot already carries the run's timestamp).
C8_IncompleteMovedToTarget ==
    pc = "rsync" =>
        IF Of(prev, "incomplete") # {}
        THEN \E inc \in Of(prev, "incomplete") :
                /\ Resumed(inc)
                /\ Target \in Names(catalog)
                /\ NameOf(inc) # Target => NameOf(inc) \notin Names(catalog)
        ELSE Fresh

C8_Witness ==
    /\ pc = "rsync"
    /\ \E inc \in Of(prev, "incomplete") :
          /\ inc.timestamp < timestamp
          /\ inc.files # EmptyTree
          /\ Lookup(catalog, Target).files = inc.files
    /\ command.delete_excluded

\* C9: a successful non-dry run renames incomplete_<ts> exactly once, after
\* the transfer and the checksum write: to daily_<ts> when no daily snapshot
\* of the current day exists at that moment, to custom_<ts> when one does;
\* afterwards no incomplete_<ts> directory remains.
C9_RenamedOnceToFinalLabel ==
    ~test =>
        /\ pc \in {"rsync", "checksums", "final"} => Target \in Names(catalog)
        /\ pc = "interval" =>
              /\ final_dest = IF Existing(prev, "daily") # {}
                              THEN Name("custom", timestamp)
                              ELSE Name("daily", timestamp)
              /\ Lookup(prev, Target).gz.exists
              /\ catalog = (prev \ {Lookup(prev, Target)})
                           \cup {[Lookup(prev, Target) EXCEPT
                                     !.interval = final_dest.interval]}
        /\ AfterMove => Target \notin Names(catalog)

\* C10: after a successful non-dry run a monthly (yearly) snapshot of the
\* current month (year) exists when that label's retention count is >= 1;
\* the run creates one only when none existed for the period, as a duplicate
\* of the snapshot it just finalised carrying the run's timestamp, and
\* changes nothing else for it.
C10_DerivedByDuplication ==
    ~test =>
        /\ pc = "retention" =>
              /\ \A i \in {2, 3} :
                    IF retention[Intervals[i]] >= 1 /\ Existing(prev, Intervals[i]) = {}
                    THEN /\ Finalised(prev)
                         /\ Of(catalog, Intervals[i])
                              = Of(prev, Intervals[i])
                                \cup {[Lookup(prev, final_dest) EXCEPT
                                          !.interval = Intervals[i],
                                          !.timestamp = timestamp]}
                    ELSE Of(catalog, Intervals[i]) = Of(prev, Intervals[i])
              /\ \A b \in prev : b \in catalog
        /\ pc = "done" =>
              \A i \in {2, 3} :
                  retention[Intervals[i]] >= 1 => Existing(catalog, Intervals[i]) # {}


\* verify() has run on a snapshot that has a checksum record
VerifiedWithRecord ==
    /\ pc \in {"verified", "raised"}
    /\ stats # None
    /\ stats.backup # None
    /\ ChecksumFile(Lookup(catalog, stats.backup)).version # 0

\* the entries of the record of b whose file does not have the stored checksum
Mismatches(b) ==
    {i \in DOMAIN ReadChecksums(b) :
        \/ Normpath(ReadChecksums(b)[i][1]) \notin DOMAIN b.files
        \/ GetFileMd5(b.files[Normpath(ReadChecksums(b)[i][1])]) # ReadChecksums(b)[i][2]}

\* C11: verify() on a snapshot with a checksum record checks every entry,
\* counts as failed exactly the entries whose live checksum differs from the
\* stored one and reports their paths, keeps checked = ok + failed, and
\* returns without raising even when entries failed.
C11_VerifyCountsMismatches ==
    VerifiedWithRecord =>
        LET b == Lookup(catalog, stats.backup)
        IN  /\ pc = "verified" /\ exc = "none" /\ ~error
            /\ stats.checked_count = Len(ReadChecksums(b))
            /\ stats.failed_count = Cardinality(Mismatches(b))
            /\ Range(stats.failed_log)
                  = {Normpath(ReadChecksums(b)[i][1]) : i \in Mismatches(b)}
            /\ stats.checked_count = stats.verified_count + stats.failed_count


\* C12: verify() of the current snapshot that succeeds in a non-dry run
\* writes the last-verified marker (the time of the write, not earlier than
\* the run's timestamp); verify() of an explicitly named snapshot leaves the
\* marker as it was, whatever its outcome.
C12_MarkerOnlyForCurrent ==
    [][/\ backup_name' # CurrentName => last_verification' = last_verification
       /\ (/\ backup_name' = CurrentName
           /\ pc' = "verified"
           /\ stats'.failed_count = 0
           /\ ~test)
          => /\ last_verification' # None
             /\ last_verification' # last_verification
             /\ last_verification'.time >= timestamp]_vars

C12_Witness ==
    /\ pc = "verified" /\ backup_name = CurrentName /\ ~test
    /\ stats.checked_count = 2 /\ stats.failed_count = 0
    /\ status = "Backup verification completed successfully!"
    /\ last_verification = [time |-> timestamp]


\* the snapshots a call verify(name) is about: the newest completed ones for
\* the default name, the directory of that name otherwise
ToVerify(cat, name) ==
    IF name = CurrentName THEN PriorSnapshots(cat)
    ELSE {b \in cat : FormatName(NameOf(b)) = name}

\* verify() raised BackupException without checking a file and without
\* touching the marker
VerifyRefused ==
    /\ pc' = "raised" /\ exc' = "BackupException"
    /\ stats'.checked_count = 0
    /\ last_verification' = last_verification
    /\ status' = "Backup verification failed!" /\ error'

\* C13: verify() of a snapshot that has neither checksums.gz nor
\* checksums.md5 raises BackupException before it checks a file, with the
\* marker unchanged, the status 'Backup verification failed!' and the error
\* flag set; verify() with no snapshot to verify raises BackupException too.
C13_NothingToVerifyRaises ==
    [][pc = "verify" /\ pc' # "verify" =>
          /\ (/\ stats'.backup # None
              /\ ChecksumFile(Lookup(catalog, stats'.backup)).version = 0)
                => VerifyRefused
          /\ ToVerify(catalog, backup_name') = {} => VerifyRefused]_vars


HasSeparator(name) == \E i \in DOMAIN name : name[i] = Separator

\* C14: _get_backup_by_name, as verify() called it with a name, raises
\* BackupException when the name holds a path separator; for any other name
\* it raises nothing and returns the snapshot of that name when its content
\* root exists and None when it does not.
C14_ByNameRejectsOnlySeparators ==
    pc \in {"verified", "raised"} /\ backup_name # CurrentName =>
        LET lookup == GetBackupByName(catalog, backup_name)
            named == {b \in catalog : FormatName(NameOf(b)) = backup_name}
        IN  IF HasSeparator(backup_name)
            THEN lookup.exc = "BackupException"
            ELSE /\ lookup.exc = "none"
                 /\ IF named = {} THEN lookup.backup = None
                    ELSE lookup.backup \in named


SuccessStatus == {"Backup completed successfully!", "Dry run completed successfully!"}

\* C15: cleanup runs on every exit path of backup() (it can always be
\* entered once backup() has returned or raised); when a stage raised, the
\* END STATUS is 'Backup failed!' or 'Backup aborted!' with the error flag
\* set; the END STATUS is the success status of the mode, with the error flag
\* cleared, only when no stage raised and backup() ran to its end.
C15_CleanupReportsOutcome ==
    /\ pc \in {"done", "raised"} => ENABLED Exit
    /\ pc # "exited" => end_status = None
    /\ pc = "exited" =>
          /\ end_status # None
          /\ end_status.status = status /\ end_status.error = error
          /\ exc # "none" =>
                /\ end_status.status \in {"Backup failed!", "Backup aborted!"}
                /\ end_status.error
          /\ end_status.status \in SuccessStatus \/ ~end_status.error =>
                /\ exc = "none"
                /\ ~end_status.error
                /\ end_status.status = IF test THEN "Dry run completed successfully!"
                                       ELSE "Backup completed successfully!"
                /\ final_dest # None
                /\ CustomUnmatched(catalog) = {}

C15_Witness ==
    /\ pc = "exited"
    /\ exc = "NameError"
    /\ end_status = [status |-> "Backup failed!", error |-> TRUE]
    /\ ~test /\ final_dest \in Names(catalog)


\* the catalog of the example: a daily and a monthly snapshot of one second
\* and an incomplete snapshot of the following day
ExampleCatalog ==
    {Name("daily", MaxTS - 2), Name("monthly", MaxTS - 2), Name("incomplete", MaxTS)}

\* C16: for the catalog {daily_<t>, monthly_<t>, incomplete_<t'>}, t' a day
\* after t, _get_latest_backup returns the daily entry for every order in
\* which the directory lists its entries, and so verify() of the current
\* snapshot verifies the daily entry.
C16_LatestOfExampleIsDaily ==
    Names(catalog) = ExampleCatalog =>
        /\ \A latest \in GetLatestBackup(catalog) :
              latest # None /\ NameOf(latest) = Name("daily", MaxTS - 2)
        /\ pc \in {"verified", "raised"} /\ backup_name = CurrentName =>
              stats.backup = Name("daily", MaxTS - 2)


\* the pairs of a record file as they stand in it
PairsIn(file) == [i \in DOMAIN file.lines |-> <<file.lines[i].filename, file.lines[i].checksum>>]

\* the pairs of a record file with a leading "./" taken off each path
PairsWithoutDotSlash(file) ==
    [i \in DOMAIN file.lines |->
        <<IF file.lines[i].filename # <<>> /\ Head(file.lines[i].filename) = "."
          THEN Tail(file.lines[i].filename) ELSE file.lines[i].filename,
          file.lines[i].checksum>>]

\* C17: the writer always produces checksums.gz and never touches
\* checksums.md5; the reader yields the pairs of checksums.gz whenever it
\* exists, those of checksums.md5 with a leading "./" stripped only when no
\* checksums.gz exists, and nothing when neither exists.
C17_WriterCurrentReaderPrefersCurrent ==
    /\ pc = "written" =>
          /\ Lookup(catalog, ret.backup).gz.exists
          /\ PairsIn(Lookup(catalog, ret.backup).gz) = ret.value
          /\ Lookup(catalog, ret.backup).md5 = Lookup(prev, ret.backup).md5
    /\ pc = "read" =>
          LET b == Lookup(catalog, ret.backup)
          IN  ret.value = IF b.gz.exists THEN PairsIn(b.gz)
                          ELSE IF b.md5.exists THEN PairsWithoutDotSlash(b.md5)
                          ELSE <<>>

C17_Witness ==
    /\ pc = "read"
    /\ Lookup(catalog, ret.backup).gz.exists
    /\ Lookup(catalog, ret.backup).md5.exists
    /\ Len(Lookup(catalog, ret.backup).md5.lines) = 2
    /\ Lookup(cat0, ret.backup).gz.exists = FALSE
    /\ ret.value = <<(<<(<<"a.txt">>), GetFileMd5("c1")>>)>>


\* C18: a dry run leaves the stored catalog as it found it, at every step
\* of backup(): no snapshot directory is created, renamed, moved or removed
\* and no checksum record is written, also when an incomplete snapshot
\* exists at the start of the run.
C18_DryRunLeavesCatalog ==
    test => catalog = cat0


\* C19: when the transfer starts, the link base _configure_rsync passed is
\* the content root of a snapshot that is not incomplete and that exists at
\* that path; none is passed when the catalog the run found holds no
\* completed snapshot.
C19_LinkBaseIsCompletedAndPresent ==
    pc = "rsync" =>
        IF Completed(prev) = {} THEN command.link_dest = None
        ELSE /\ command.link_dest # None
             /\ command.link_dest \in Names(Completed(catalog))


\* the calendar period a label counts: the day, the month or the year
Period(interval, ts) ==
    CASE interval = "daily" -> Day(ts)
      [] interval = "monthly" -> Month(ts)
      [] interval = "yearly" -> Year(ts)

\* C20: from an empty catalog, after any sequence of runs (successful,
\* failed, dry or killed at any step) whose timestamps do not decrease, the
\* catalog holds at most one daily snapshot of a day, one monthly snapshot
\* of a month and one yearly snapshot of a year.
C20_OneSnapshotPerPeriod ==
    \A b, c \in catalog :
        /\ b.interval = c.interval
        /\ b.interval \in Range(Intervals)
        /\ Period(b.interval, b.timestamp) = Period(c.interval, c.timestamp)
        => b = c

C20_Witness ==
    /\ runs > 1 /\ pc = "done" /\ ~test
    /\ \E b \in Of(catalog, "daily"), c \in Of(catalog, "custom") :
          /\ b.timestamp < c.timestamp
          /\ c.timestamp = timestamp
          /\ Day(b.timestamp) = Day(c.timestamp)


BetweenRuns == pc \in {"done", "raised", "killed"}

\* C21: from an empty catalog, whatever runs fail or are killed at whatever
\* step, the catalog holds at most one incomplete snapshot between runs; a
\* run that found one has renamed it to its own target, so once the setup
\* of a run is over the only incomplete snapshot there can be is the target.
C21_AtMostOneIncomplete ==
    /\ BetweenRuns => Cardinality(Of(catalog, "incomplete")) <= 1
    /\ pc = "rsync" => \A b \in Of(catalog, "incomplete") : NameOf(b) = Target

C21_Witness ==
    /\ runs > 1 /\ pc \in {"raised", "killed"}
    /\ \E b \in Of(cat0, "incomplete") : b.timestamp < timestamp
    /\ Names(Of(catalog, "incomplete")) = {Target}


\* every entry of the record of b names a file of b and carries the checksum
\* of that file's content
RecordExact(b) ==
    \A i \in 1..Len(ReadChecksums(b)) :
        /\ ReadChecksums(b)[i][1] \in DOMAIN b.files
        /\ ReadChecksums(b)[i][2] = GetFileMd5(b.files[ReadChecksums(b)[i][1]])

\* C22: after a successful non-dry run over a catalog whose records were
\* exact, every entry of the new snapshot's record is the checksum of the
\* file stored at that path, also when the run resumed an incomplete
\* snapshot holding a file that differs from the prior snapshot's.
C22_NewRecordMatchesStoredFiles ==
    /\ pc = "done" /\ ~test /\ Finalised(catalog)
    /\ \A b \in cat0 : RecordExact(b)
    => RecordExact(Lookup(catalog, final_dest))


\* C23: whatever the retention counts and the catalog before the run, the
\* snapshot a successful non-dry run has finalised (daily_<ts> or
\* custom_<ts>) is still there when the run ends.
C23_RunKeepsItsOwnSnapshot ==
    pc = "done" /\ ~test => final_dest \in Names(catalog)


FinalLabels == {"daily", "custom", "monthly", "yearly"}

\* C24: a snapshot that appears in the catalog under a final label (daily,
\* custom, monthly, yearly) has a checksum record from that moment on, even
\* when the run is killed at that step.
C24_FinalSnapshotsAppearWithRecord ==
    [][\A b \in catalog' :
          b.interval \in FinalLabels /\ NameOf(b) \notin Names(catalog)
          => ChecksumFile(b).version # 0]_vars


\* C25: whenever schedule_verification returns without raising (verification
\* disabled, marker initialised, interval not elapsed, or verification
\* done) the error flag is false.
C25_ScheduleReturnsWithoutError ==
    pc = "scheduled" => ~error


\* the entries of the record of b whose file is not under the content root
MissingFiles(b) ==
    {i \in DOMAIN ReadChecksums(b) : Normpath(ReadChecksums(b)[i][1]) \notin DOMAIN b.files}

\* C26: verify() of a snapshot whose record names a file that is missing
\* counts that entry as failed, still checks the other entries and returns
\* normally.
C26_MissingFileIsAFailedEntry ==
    VerifiedWithRecord /\ MissingFiles(Lookup(catalog, stats.backup)) # {} =>
        LET b == Lookup(catalog, stats.backup)
        IN  /\ pc = "verified" /\ exc = "none"
            /\ stats.checked_count = Len(ReadChecksums(b))
            /\ stats.failed_count >= Cardinality(MissingFiles(b))
            /\ \A i \in MissingFiles(b) :
                  Normpath(ReadChecksums(b)[i][1]) \in Range(stats.failed_log)

=============================================================================
